---- MODULE Spec2Model ----
(***************************************************************************)
(* A model of tris.py: the falling-block engine (TetrisGame and the board  *)
(* functions), the score log (save_score) and the per-player registry of   *)
(* sessions, display messages and auto-drop tasks.                         *)
(*                                                                         *)
(* Python lists are sequences, so the 0-based cell board[by][bx] of the    *)
(* source is board[by + 1][bx + 1] here; anchors (px, py) keep the         *)
(* source's 0-based values.                                                *)
(***************************************************************************)
EXTENDS Integers, Sequences, FiniteSets, Bags, TLC

VARIABLES
    game,     \* the TetrisGame object under play
    last,     \* the last engine operation: its name, the game before it, the piece land_piece drew
    steps,    \* operations applied so far
    inp,      \* the arguments of a call of a board function
    out,      \* what that call returned
    scores,   \* tris.log: one entry per line
    clock,    \* what datetime.now() reads
    saved,    \* the save_score calls so far: per player their number and largest arguments, and the last call
    top,      \* the last call of get_highscores: its limit, the file it read, what it returned
    games,    \* games[user_id]: the player's session (its index in sess), 0 when absent
    messages, \* whether messages[user_id] is present
    tasks,    \* tasks[user_id]: the registered auto_drop task (its index in loops), 0 when absent
    sess,     \* the TetrisGame objects created so far, as the registry sees them
    loops,    \* the auto_drop tasks created so far
    hand,     \* the event handlers in flight, each suspended at an await
    used,     \* how many events and landings have happened
    recorded, \* per session, the calls of log_game_score and of save_score for it
    event     \* the last event handled: its kind and, for a command, its move codes

engineVars == <<game, last, steps>>

boardVars == <<inp, out>>

storeVars == <<scores, clock, saved, top>>

regVars == <<games, messages, tasks, sess, loops, hand, used, recorded, event>>

vars == <<game, last, steps, inp, out, scores, clock, saved, top,
          games, messages, tasks, sess, loops, hand, used, recorded, event>>

WIDTH == 7

HEIGHT == 12

\* PIECES, tris.py:12-15
PIECES(t) == IF t = "I" THEN <<<<1, 1, 1>>>> ELSE <<<<1, 1>>, <<1, 0>>>>

PieceTypes == {"I", "L"}

----------------------------------------------------------------------------
(* Piece library *)

\* zip(*piece[::-1]): row i of the result is column i of the reversed rows
rotate_piece(piece) ==
    LET R == Len(piece)
        C == Len(piece[1])
    IN  [i \in 1..C |-> [j \in 1..R |-> piece[R + 1 - j][i]]]

rotate_i_piece_center(piece) ==
    IF Len(piece) = 1 /\ Len(piece[1]) = 3 THEN <<<<1>>, <<1>>, <<1>>>>
    ELSE IF Len(piece) = 3 /\ Len(piece[1]) = 1 THEN <<<<1, 1, 1>>>>
    ELSE piece

empty_board == [y \in 1..HEIGHT |-> [x \in 1..WIDTH |-> 0]]

----------------------------------------------------------------------------
(* Board *)

\* The two nested loops of check_collision, cell n of the piece in row-major
\* order, with the source's early returns.
RECURSIVE CollisionScan(_, _, _, _, _)
CollisionScan(board, piece, px, py, n) ==
    LET C == Len(piece[1])
    IN  IF n >= Len(piece) * C THEN FALSE
        ELSE LET y == n \div C
                 x == n % C
                 bx == px + x
                 by == py + y
             IN  IF piece[y + 1][x + 1] /= 0
                 THEN IF bx < 0 \/ bx >= WIDTH \/ by >= HEIGHT THEN TRUE
                      ELSE IF by >= 0 /\ board[by + 1][bx + 1] /= 0 THEN TRUE
                      ELSE CollisionScan(board, piece, px, py, n + 1)
                 ELSE CollisionScan(board, piece, px, py, n + 1)

\* check_collision without the "by >= 0" test: a negative row index counts
\* from the end of the list
RECURSIVE CollisionScanWrap(_, _, _, _, _)
CollisionScanWrap(board, piece, px, py, n) ==
    LET C == Len(piece[1])
    IN  IF n >= Len(piece) * C THEN FALSE
        ELSE LET y == n \div C
                 x == n % C
                 bx == px + x
                 by == py + y
             IN  IF piece[y + 1][x + 1] /= 0
                 THEN IF bx < 0 \/ bx >= WIDTH \/ by >= HEIGHT THEN TRUE
                      ELSE IF board[(IF by < 0 THEN by + HEIGHT ELSE by) + 1][bx + 1] /= 0
                      THEN TRUE
                      ELSE CollisionScanWrap(board, piece, px, py, n + 1)
                 ELSE CollisionScanWrap(board, piece, px, py, n + 1)

check_collision_wrap(board, piece, px, py) == CollisionScanWrap(board, piece, px, py, 0)

check_collision(board, piece, px, py) == CollisionScan(board, piece, px, py, 0)

\* Every write of merge_piece stores 1, so the order of the loops is immaterial.
merge_piece(board, piece, px, py) ==
    [by \in 1..HEIGHT |-> [bx \in 1..WIDTH |->
        IF \E y \in 1..Len(piece) : \E x \in 1..Len(piece[1]) :
              /\ piece[y][x] /= 0
              /\ px + (x - 1) = bx - 1
              /\ py + (y - 1) = by - 1
        THEN 1
        ELSE board[by][bx]]]

\* all(row)
AllRow(row) == \A x \in 1..Len(row) : row[x] /= 0

NotAllRow(row) == ~AllRow(row)

RECURSIVE InsertEmpty(_, _)
InsertEmpty(rows, k) ==
    IF k <= 0 THEN rows
    ELSE InsertEmpty(<<[x \in 1..WIDTH |-> 0]>> \o rows, k - 1)

\* clear_lines putting the empty rows below the kept rows
clear_lines_append(board) ==
    LET new_board == SelectSeq(board, NotAllRow)
        lines_cleared == HEIGHT - Len(new_board)
    IN  <<new_board \o [i \in 1..lines_cleared |-> [x \in 1..WIDTH |-> 0]], lines_cleared>>

\* clear_lines emptying the full rows where they are
clear_lines_in_place(board) ==
    <<[y \in 1..HEIGHT |-> IF AllRow(board[y]) THEN [x \in 1..WIDTH |-> 0] ELSE board[y]] \o <<>>,
      HEIGHT - Len(SelectSeq(board, NotAllRow))>>

\* returns <<new_board, lines_cleared>>
clear_lines(board) ==
    LET new_board == SelectSeq(board, NotAllRow)
        lines_cleared == HEIGHT - Len(new_board)
    IN  <<InsertEmpty(new_board, lines_cleared), lines_cleared>>

----------------------------------------------------------------------------
(* TetrisGame *)

\* The rotation loop of spawn_piece and land_piece: n = random.randint(0, 3)
RECURSIVE random_rotation(_, _, _)
random_rotation(t, piece, n) ==
    IF n = 0 THEN piece
    ELSE random_rotation(t,
                         IF t = "I" THEN rotate_i_piece_center(piece)
                         ELSE rotate_piece(piece),
                         n - 1)

\* WIDTH // 2 - len(piece[0]) // 2
spawn_px(piece) == (WIDTH \div 2) - (Len(piece[1]) \div 2)

\* TetrisGame.__init__ with spawn_piece; t and n are the two random draws
TetrisGame(t, n) ==
    LET p == random_rotation(t, PIECES(t), n)
    IN  [board |-> empty_board,
         score |-> 0,
         game_over |-> FALSE,
         lines_cleared_total |-> 0,
         current_piece_type |-> t,
         logged |-> FALSE,
         piece |-> p,
         px |-> spawn_px(p),
         py |-> 0]

\* move_left without the game_over test
move_left_when_over(g) ==
    IF ~check_collision(g.board, g.piece, g.px - 1, g.py)
    THEN [g EXCEPT !.px = @ - 1]
    ELSE g

move_left(g) ==
    IF ~g.game_over /\ ~check_collision(g.board, g.piece, g.px - 1, g.py)
    THEN [g EXCEPT !.px = @ - 1]
    ELSE g

\* move_right stopped by the walls only
move_right_walls_only(g) ==
    IF ~g.game_over /\ ~check_collision(empty_board, g.piece, g.px + 1, g.py)
    THEN [g EXCEPT !.px = @ + 1]
    ELSE g

move_right(g) ==
    IF ~g.game_over /\ ~check_collision(g.board, g.piece, g.px + 1, g.py)
    THEN [g EXCEPT !.px = @ + 1]
    ELSE g

\* wall_kicks, tris.py:180, 183, 186, 202
KicksIHtoV == <<<<0, 0>>, <<-1, 0>>, <<1, 0>>, <<0, -1>>, <<0, 1>>, <<-2, 0>>, <<2, 0>>>>

KicksIVtoH == <<<<0, 0>>, <<-1, 0>>, <<1, 0>>, <<0, 1>>, <<0, -1>>, <<-2, 0>>, <<2, 0>>>>

KicksIFallback == <<<<0, 0>>>>

KicksL == <<<<0, 0>>, <<-1, 0>>, <<1, 0>>, <<0, -1>>, <<-1, -1>>, <<1, -1>>>>

\* the loop over wall_kicks keeping the last placement that does not collide
RECURSIVE last_kick(_, _, _, _, _, _)
last_kick(board, rotated, bx, by, kicks, i) ==
    IF i > Len(kicks) THEN 0
    ELSE LET later == last_kick(board, rotated, bx, by, kicks, i + 1)
         IN  IF later > 0 THEN later
             ELSE IF ~check_collision(board, rotated, bx + kicks[i][1], by + kicks[i][2])
                  THEN i
                  ELSE 0

\* "for kick_x, kick_y in wall_kicks": the index of the first kick whose
\* placement does not collide, 0 when the loop runs off the end
RECURSIVE first_kick(_, _, _, _, _, _)
first_kick(board, rotated, bx, by, kicks, i) ==
    IF i > Len(kicks) THEN 0
    ELSE IF ~check_collision(board, rotated, bx + kicks[i][1], by + kicks[i][2])
         THEN i
         ELSE first_kick(board, rotated, bx, by, kicks, i + 1)

\* the base anchor and the kick list rotate() tries for the current piece
rotate_plan(g) ==
    IF g.current_piece_type = "I"
    THEN LET rotated == rotate_i_piece_center(g.piece)
         IN  IF Len(g.piece) = 1 /\ Len(rotated) = 3
             THEN [rotated |-> rotated, bx |-> g.px + 1, by |-> g.py - 1, kicks |-> KicksIHtoV]
             ELSE IF Len(g.piece) = 3 /\ Len(rotated) = 1
             THEN [rotated |-> rotated, bx |-> g.px - 1, by |-> g.py + 1, kicks |-> KicksIVtoH]
             ELSE [rotated |-> rotated, bx |-> g.px, by |-> g.py, kicks |-> KicksIFallback]
    ELSE [rotated |-> rotate_piece(g.piece), bx |-> g.px, by |-> g.py, kicks |-> KicksL]

commit_kick(g, plan, i) ==
    [g EXCEPT !.piece = plan.rotated,
              !.px = plan.bx + plan.kicks[i][1],
              !.py = plan.by + plan.kicks[i][2]]

\* rotate() without its collision tests: the base placement is committed
rotate_unchecked(g) ==
    IF g.game_over THEN g ELSE commit_kick(g, rotate_plan(g), 1)

rotate(g) ==
    IF g.game_over THEN g
    ELSE LET plan == rotate_plan(g)
             i == first_kick(g.board, plan.rotated, plan.bx, plan.by, plan.kicks, 1)
         IN  IF g.current_piece_type = "I"
             THEN IF i > 0 THEN commit_kick(g, plan, i) ELSE g
             ELSE \* "try basic rotation first": only the piece is assigned
                  IF ~check_collision(g.board, plan.rotated, g.px, g.py)
                  THEN [g EXCEPT !.piece = plan.rotated]
                  ELSE IF i > 0 THEN commit_kick(g, plan, i) ELSE g

\* land_piece leaving the merged board as it is
land_piece_uncleared(g, t, n) ==
    LET g1 == [g EXCEPT !.board = merge_piece(g.board, g.piece, g.px, g.py)]
        next_piece == random_rotation(t, PIECES(t), n)
    IN  IF check_collision(g1.board, next_piece, spawn_px(next_piece), 0)
        THEN [g1 EXCEPT !.game_over = TRUE]
        ELSE [g1 EXCEPT !.current_piece_type = t,
                        !.piece = next_piece,
                        !.px = spawn_px(next_piece),
                        !.py = 0]

\* land_piece testing the drawn piece against the board as it was before
\* the merge
land_piece_stale_board(g, t, n) ==
    LET cl == clear_lines(merge_piece(g.board, g.piece, g.px, g.py))
        g1 == [g EXCEPT !.board = cl[1],
                        !.lines_cleared_total = @ + cl[2],
                        !.score = @ + (cl[2] * cl[2]) * 100]
        next_piece == random_rotation(t, PIECES(t), n)
    IN  IF check_collision(g.board, next_piece, spawn_px(next_piece), 0)
        THEN [g1 EXCEPT !.game_over = TRUE]
        ELSE [g1 EXCEPT !.current_piece_type = t,
                        !.piece = next_piece,
                        !.px = spawn_px(next_piece),
                        !.py = 0]

\* land_piece scoring 100 points per cleared row
land_piece_linear(g, t, n) ==
    LET cl == clear_lines(merge_piece(g.board, g.piece, g.px, g.py))
        g1 == [g EXCEPT !.board = cl[1],
                        !.lines_cleared_total = @ + cl[2],
                        !.score = @ + cl[2] * 100]
        next_piece == random_rotation(t, PIECES(t), n)
    IN  IF check_collision(g1.board, next_piece, spawn_px(next_piece), 0)
        THEN [g1 EXCEPT !.game_over = TRUE]
        ELSE [g1 EXCEPT !.current_piece_type = t,
                        !.piece = next_piece,
                        !.px = spawn_px(next_piece),
                        !.py = 0]

\* t, n: the random draws for the next piece
land_piece(g, t, n) ==
    LET merged == merge_piece(g.board, g.piece, g.px, g.py)
        cl == clear_lines(merged)
        g1 == [g EXCEPT !.board = cl[1],
                        !.lines_cleared_total = @ + cl[2],
                        !.score = @ + (cl[2] * cl[2]) * 100]
        next_piece == random_rotation(t, PIECES(t), n)
        next_px == spawn_px(next_piece)
        next_py == 0
    IN  IF check_collision(g1.board, next_piece, next_px, next_py)
        THEN [g1 EXCEPT !.game_over = TRUE]
        ELSE [g1 EXCEPT !.current_piece_type = t,
                        !.piece = next_piece,
                        !.px = next_px,
                        !.py = next_py]

\* returns [game, moved]
drop(g, t, n) ==
    IF g.game_over THEN [game |-> g, moved |-> FALSE]
    ELSE IF ~check_collision(g.board, g.piece, g.px, g.py + 1)
         THEN [game |-> [g EXCEPT !.py = @ + 1], moved |-> TRUE]
         ELSE [game |-> land_piece(g, t, n), moved |-> FALSE]

\* the loop of hard_drop scoring 1 point per row
RECURSIVE hard_drop_loop_one_point(_)
hard_drop_loop_one_point(g) ==
    IF ~check_collision(g.board, g.piece, g.px, g.py + 1)
    THEN hard_drop_loop_one_point([g EXCEPT !.py = @ + 1, !.score = @ + 1])
    ELSE g

\* the while loop of hard_drop
RECURSIVE hard_drop_loop(_)
hard_drop_loop(g) ==
    IF ~check_collision(g.board, g.piece, g.px, g.py + 1)
    THEN hard_drop_loop([g EXCEPT !.py = @ + 1, !.score = @ + 2])
    ELSE g

hard_drop(g, t, n) ==
    IF g.game_over THEN g
    ELSE land_piece(hard_drop_loop(g), t, n)

----------------------------------------------------------------------------
(* The engine under play: one session, one method call per step *)

MaxSteps == 3

Cmd(c) == [c |-> c, t |-> "I", n |-> 0]

Land(c, t, n) == [c |-> c, t |-> t, n |-> n]

\* one code of a play script: a, d, w as in on_message; s a hard drop and
\* t a tick, both with the draws a landing would make
apply_code(g, k) ==
    IF k.c = "a" THEN move_left(g)
    ELSE IF k.c = "d" THEN move_right(g)
    ELSE IF k.c = "w" THEN rotate(g)
    ELSE IF k.c = "s" THEN hard_drop(g, k.t, k.n)
    ELSE drop(g, k.t, k.n).game

RECURSIVE play(_, _, _)
play(g, script, i) ==
    IF i > Len(script) THEN g ELSE play(apply_code(g, script[i]), script, i + 1)

Rep(k, code) == [i \in 1..k |-> code]

\* Games in progress, each the result of playing the listed codes on a new
\* game: positions from which the deep cases of play are a few steps away.
FillRow == <<Cmd("a"), Cmd("a"), Land("s", "I", 0), Cmd("d"), Land("s", "I", 0)>>

LastRow == <<Cmd("a"), Cmd("a"), Land("s", "I", 0), Cmd("d"), Land("s", "I", 1)>>

ToRightWall == Rep(3, Cmd("d"))

\* rows 11, 10.., filled in columns 0..5, a vertical bar falling in column 6
OneRowShort == play(TetrisGame("I", 0), LastRow \o ToRightWall, 1)

TwoRowsShort == play(TetrisGame("I", 0), FillRow \o LastRow \o ToRightWall, 1)

ThreeRowsShort == play(TetrisGame("I", 0), FillRow \o FillRow \o LastRow \o ToRightWall, 1)

\* column 3 filled in rows 3..11, a vertical bar at the spawn anchor
StackFull == play(TetrisGame("I", 1), Rep(3, Land("s", "I", 1)), 1)

\* column 3 filled in rows 3..11, a corner at the spawn anchor
StackHigh == play(TetrisGame("I", 1), <<Land("s", "I", 1), Land("s", "I", 1), Land("s", "L", 3)>>, 1)

\* a vertical bar in column 0, rows 8..10, beside a landed bar in column 1
BarInWell ==
    play(TetrisGame("I", 1),
         <<Cmd("a"), Cmd("a"), Land("s", "I", 1)>> \o Rep(3, Cmd("a")) \o Rep(8, Cmd("t")), 1)

\* a corner resting with its empty cell on top of a landed bar in column 3
CornerOnStack == play(TetrisGame("I", 1), <<Land("s", "L", 0)>> \o Rep(8, Cmd("t")), 1)

\* column 3 filled in rows 3..11 under a bar lying in row 2, a horizontal bar
\* at the spawn anchor
BarUnderSpawn ==
    play(TetrisGame("I", 1),
         <<Land("s", "I", 1), Land("s", "I", 1), Land("s", "I", 0), Land("s", "I", 0)>>, 1)

\* an upright bar at the left wall
BarAtLeftWall == play(TetrisGame("I", 1), Rep(3, Cmd("a")), 1)

\* column 3 filled in rows 6..11 under a bar lying in row 5, an upright bar
\* in column 5, rows 4..6, beside the end of the lying bar
BarBesideLedge ==
    play(TetrisGame("I", 1),
         <<Land("s", "I", 1), Land("s", "I", 0), Land("s", "I", 1), Cmd("d"), Cmd("d")>>
             \o Rep(4, Cmd("t")), 1)

Positions ==
    {OneRowShort, TwoRowsShort, ThreeRowsShort, StackFull, StackHigh, BarInWell,
     CornerOnStack, BarUnderSpawn, BarAtLeftWall, BarBesideLedge}

NoDraw == [type |-> "none", piece |-> <<>>]

NoOp == [op |-> "init", pre |-> TetrisGame("I", 0), draw |-> NoDraw, moved |-> FALSE]

NoCall == [fn |-> "none"]

EngineIdle ==
    /\ game = TetrisGame("I", 0)
    /\ last = NoOp
    /\ steps = 0

BoardIdle == inp = NoCall /\ out = NoCall

Players == {1, 2}

NoSave == [user_id |-> 0]

StoreInit ==
    /\ scores = <<>>
    /\ clock = 1
    /\ saved = [count |-> [p \in Players |-> 0],
                score |-> [p \in Players |-> 0],
                lines |-> [p \in Players |-> 0],
                time |-> [p \in Players |-> 0],
                call |-> NoSave,
                before |-> <<>>]
    /\ top = NoCall

\* a handler that has returned
Idle == [kind |-> "idle", pc |-> "", game |-> 0, msg |-> FALSE]

RegIdle ==
    /\ games = 0
    /\ messages = FALSE
    /\ tasks = 0
    /\ sess = <<>>
    /\ loops = <<>>
    /\ hand = EmptyBag
    /\ used = [events |-> 0, landings |-> 0]
    /\ recorded = <<>>
    /\ event = [kind |-> "none", cmds |-> <<>>]

EngineInit ==
    /\ game \in {TetrisGame(t, n) : t \in PieceTypes, n \in 0..3} \cup Positions
    /\ last = [NoOp EXCEPT !.pre = game]
    /\ steps = 0
    /\ BoardIdle
    /\ StoreInit
    /\ RegIdle

\* whether drop / hard_drop on g reaches land_piece and so draws a piece
lands_on_drop(g) ==
    ~g.game_over /\ check_collision(g.board, g.piece, g.px, g.py + 1)

Draw(t, n) == [type |-> t, piece |-> random_rotation(t, PIECES(t), n)]

Done(name, g, draw, moved) ==
    /\ last' = [op |-> name, pre |-> game, draw |-> draw, moved |-> moved]
    /\ game' = g
    /\ steps' = steps + 1
    /\ UNCHANGED <<boardVars, storeVars, regVars>>

MoveLeft == steps < MaxSteps /\ Done("move_left", move_left(game), NoDraw, FALSE)

MoveRight == steps < MaxSteps /\ Done("move_right", move_right(game), NoDraw, FALSE)

Rotate == steps < MaxSteps /\ Done("rotate", rotate(game), NoDraw, FALSE)

Tick ==
    /\ steps < MaxSteps
    /\ IF lands_on_drop(game)
       THEN \E t \in PieceTypes, n \in 0..3 :
               Done("drop", drop(game, t, n).game, Draw(t, n), drop(game, t, n).moved)
       ELSE Done("drop", drop(game, "I", 0).game, NoDraw, drop(game, "I", 0).moved)

HardDrop ==
    /\ steps < MaxSteps
    /\ IF game.game_over
       THEN Done("hard_drop", hard_drop(game, "I", 0), NoDraw, FALSE)
       ELSE \E t \in PieceTypes, n \in 0..3 :
               Done("hard_drop", hard_drop(game, t, n), Draw(t, n), FALSE)

\* the q code of on_message / on_reaction_add, reached only for a live game
ForceQuit ==
    /\ steps < MaxSteps
    /\ ~game.game_over
    /\ Done("quit", [game EXCEPT !.game_over = TRUE], NoDraw, FALSE)

Next == MoveLeft \/ MoveRight \/ Rotate \/ Tick \/ HardDrop \/ ForceQuit

Spec == EngineInit /\ [][Next]_vars

----------------------------------------------------------------------------
(* The board functions called on their own *)

MaxBand == 3

Reach == 1

EmptyRow == [x \in 1..WIDTH |-> 0]

RowPatterns ==
    { EmptyRow,
      [x \in 1..WIDTH |-> 1],
      [x \in 1..WIDTH |-> IF x <= 3 THEN 1 ELSE 0],
      [x \in 1..WIDTH |-> IF x = 4 THEN 0 ELSE 1] }

\* an empty board with the rows of band laid from row off (0-based) downwards
BoardWith(off, band) ==
    [y \in 1..HEIGHT |->
        IF y - off \in 1..Len(band) THEN band[y - off] ELSE EmptyRow]

BandBoards ==
    {BoardWith(off, band) : off \in 0..(HEIGHT - MaxBand), band \in [1..MaxBand -> RowPatterns]}

RowBoards == {BoardWith(off, <<row>>) : off \in 0..(HEIGHT - 1), row \in RowPatterns}

PieceShapes == {random_rotation(t, PIECES(t), n) : t \in PieceTypes, n \in 0..3}

BoardInit ==
    /\ inp \in
          [fn : {"clear_lines"}, board : BandBoards]
          \cup [fn : {"check_collision"}, board : RowBoards, piece : PieceShapes,
                px : (0 - Reach)..(WIDTH - 1 + Reach),
                py : (0 - 2 - Reach)..(HEIGHT - 1 + Reach)]
    /\ out = NoCall
    /\ EngineIdle
    /\ StoreInit
    /\ RegIdle

CallClearLines ==
    /\ inp.fn = "clear_lines"
    /\ out = NoCall
    /\ out' = [fn |-> "clear_lines", value |-> clear_lines(inp.board)]
    /\ UNCHANGED <<inp, engineVars, storeVars, regVars>>

CallCheckCollision ==
    /\ inp.fn = "check_collision"
    /\ out = NoCall
    /\ out' = [fn |-> "check_collision",
               value |-> check_collision(inp.board, inp.piece, inp.px, inp.py)]
    /\ UNCHANGED <<inp, engineVars, storeVars, regVars>>

BoardNext == CallClearLines \/ CallCheckCollision

SpecBoard == BoardInit /\ [][BoardNext]_vars

----------------------------------------------------------------------------
(* The score log.  json.dumps / json.loads restore a flat dict of numbers  *)
(* and strings, so the file is the sequence of its entries; a timestamp is *)
(* the reading of the clock, which isoformat() renders in sortable form.   *)

MaxSaves == 3

\* load_scores with tris.log readable
load_scores == scores

\* the index of the first entry of user_id, 0 when the for loop ends without break
RECURSIVE find_entry(_, _, _)
find_entry(entries, user_id, i) ==
    IF i > Len(entries) THEN 0
    ELSE IF entries[i].user_id = user_id THEN i
    ELSE find_entry(entries, user_id, i + 1)

\* datetime.isoformat(): the fields of the reading, each of fixed width, the
\* fraction of a second left out when it is zero.  The clock counts half
\* seconds, so a reading is <<seconds>> or <<seconds, 5>>.
isoformat(now) ==
    IF now % 2 = 0 THEN <<now \div 2>> ELSE <<now \div 2, 5>>

\* the bests updated together, only by a game with a higher score
update_entry_coupled(entry, username, score, avatar_url, lines_cleared, game_time, now) ==
    LET e1 == [entry EXCEPT !.games_played = @ + 1,
                            !.total_lines = @ + lines_cleared,
                            !.total_time = @ + game_time,
                            !.username = username,
                            !.avatar_url = avatar_url]
    IN  IF score > e1.score
        THEN [e1 EXCEPT !.score = score, !.timestamp = isoformat(now),
                        !.best_lines = lines_cleared, !.best_lines_timestamp = isoformat(now),
                        !.best_time = game_time, !.best_time_timestamp = isoformat(now)]
        ELSE e1

\* the matching entry updated: counters, name and avatar always, each of
\* the three bests on its own comparison ("Update bests independently")
update_entry(entry, username, score, avatar_url, lines_cleared, game_time, now) ==
    LET e1 == [entry EXCEPT !.games_played = @ + 1,
                            !.total_lines = @ + lines_cleared,
                            !.total_time = @ + game_time,
                            !.username = username,
                            !.avatar_url = avatar_url]
        e2 == IF score > e1.score
              THEN [e1 EXCEPT !.score = score, !.timestamp = isoformat(now)]
              ELSE e1
        e3 == IF lines_cleared > e2.best_lines
              THEN [e2 EXCEPT !.best_lines = lines_cleared, !.best_lines_timestamp = isoformat(now)]
              ELSE e2
    IN  IF game_time > e3.best_time
        THEN [e3 EXCEPT !.best_time = game_time, !.best_time_timestamp = isoformat(now)]
        ELSE e3

new_entry(username, score, avatar_url, user_id, lines_cleared, game_time, now) ==
    [username |-> username, score |-> score, avatar_url |-> avatar_url,
     user_id |-> user_id, timestamp |-> isoformat(now), games_played |-> 1,
     total_lines |-> lines_cleared, total_time |-> game_time,
     best_lines |-> lines_cleared, best_time |-> game_time,
     best_lines_timestamp |-> isoformat(now), best_time_timestamp |-> isoformat(now)]

\* the entries save_score writes back to tris.log
save_score(entries, username, score, avatar_url, user_id, lines_cleared, game_time, now) ==
    LET i == find_entry(entries, user_id, 1)
    IN  IF i > 0
        THEN [entries EXCEPT ![i] =
                 update_entry(@, username, score, avatar_url, lines_cleared, game_time, now)]
        ELSE Append(entries,
                    new_entry(username, score, avatar_url, user_id, lines_cleared, game_time, now))

\* a < b for two strings of fixed-width fields: at the first field that
\* differs, or a a proper prefix of b
RECURSIVE str_before(_, _, _)
str_before(a, b, i) ==
    IF i > Len(a) THEN i <= Len(b)
    ELSE IF i > Len(b) THEN FALSE
    ELSE IF a[i] /= b[i] THEN a[i] < b[i]
    ELSE str_before(a, b, i + 1)

\* ties between equal scores left in the order of the file
key_before_score_only(a, b) == a.score > b.score

\* (-a["score"], a["timestamp"]) < (-b["score"], b["timestamp"])
key_before(a, b) ==
    \/ a.score > b.score
    \/ a.score = b.score /\ str_before(a.timestamp, b.timestamp, 1)

\* x put into a sorted list after every entry whose key is not greater
RECURSIVE insert_sorted(_, _, _)
insert_sorted(sorted, x, i) ==
    IF i > Len(sorted) THEN Append(sorted, x)
    ELSE IF key_before(x, sorted[i])
         THEN SubSeq(sorted, 1, i - 1) \o <<x>> \o SubSeq(sorted, i, Len(sorted))
         ELSE insert_sorted(sorted, x, i + 1)

\* list.sort(key=...) on the first n entries: stable
RECURSIVE sort_scores(_, _)
sort_scores(entries, n) ==
    IF n = 0 THEN <<>>
    ELSE insert_sorted(sort_scores(entries, n - 1), entries[n], 1)

\* scores[:limit] for limit >= 0
first_entries(entries, limit) ==
    SubSeq(entries, 1, IF limit < Len(entries) THEN limit ELSE Len(entries))

get_highscores(entries, limit) ==
    first_entries(sort_scores(entries, Len(entries)), limit)

Limits == {0, 1, 2, 10}

Names == {"ann", "ann2"}

Avatars == {""}

ScoreValues == {50, 150}

LineValues == {0, 2}

TimeValues == {5, 9}

Max(a, b) == IF a > b THEN a ELSE b

TotalSaves == saved.count[1] + saved.count[2]

SaveScore ==
    /\ TotalSaves < MaxSaves
    /\ \E user_id \in Players, username \in Names, avatar_url \in Avatars,
          score \in ScoreValues, lines_cleared \in LineValues, game_time \in TimeValues :
          /\ scores' = save_score(load_scores, username, score, avatar_url, user_id,
                                  lines_cleared, game_time, clock)
          /\ saved' = [count |-> [saved.count EXCEPT ![user_id] = @ + 1],
                       score |-> [saved.score EXCEPT ![user_id] = Max(@, score)],
                       lines |-> [saved.lines EXCEPT ![user_id] = Max(@, lines_cleared)],
                       time |-> [saved.time EXCEPT ![user_id] = Max(@, game_time)],
                       call |-> [user_id |-> user_id, score |-> score,
                                 lines_cleared |-> lines_cleared, game_time |-> game_time],
                       before |-> scores]
    /\ clock' = clock + 1
    /\ UNCHANGED <<top, engineVars, boardVars, regVars>>

StoreNext == SaveScore

StoreSpecInit == StoreInit /\ EngineIdle /\ BoardIdle /\ RegIdle

SpecStore == StoreSpecInit /\ [][StoreNext]_vars

\* the !score command reading the leaderboard
GetHighscores ==
    /\ top = NoCall
    /\ \E limit \in Limits :
          top' = [fn |-> "get_highscores", limit |-> limit, file |-> load_scores,
                  value |-> get_highscores(load_scores, limit)]
    /\ UNCHANGED <<scores, clock, saved, engineVars, boardVars, regVars>>

\* games are saved, then the leaderboard is read
SaveThenRead == top = NoCall /\ SaveScore

TopNext == SaveThenRead \/ GetHighscores

\* the score log and its leaderboard
SpecTop == StoreSpecInit /\ [][TopNext]_vars

\* tris.log after the rewrite of save_score is cut short: open(..., "w") has
\* emptied the file and k of the lines have been written
cut_short(entries, k) == SubSeq(entries, 1, k)

\* save_score raising OSError: at open, with tris.log untouched, or in the
\* rewrite, after k lines
SaveScoreFails ==
    /\ TotalSaves < MaxSaves
    /\ \E user_id \in Players, username \in Names, avatar_url \in Avatars,
          score \in ScoreValues, lines_cleared \in LineValues, game_time \in TimeValues :
          LET entries == save_score(load_scores, username, score, avatar_url, user_id,
                                    lines_cleared, game_time, clock)
          IN  /\ \/ scores' = scores
                 \/ \E k \in 0..(Len(entries) - 1) : scores' = cut_short(entries, k)
              /\ saved' = [saved EXCEPT !.count[user_id] = @ + 1,
                                        !.call = [user_id |-> user_id, failed |-> TRUE],
                                        !.before = scores]
    /\ clock' = clock + 1
    /\ UNCHANGED <<top, engineVars, boardVars, regVars>>

StoreFailNext == SaveScore \/ SaveScoreFails

\* the score log with writes that can fail
SpecStoreFail == StoreSpecInit /\ [][StoreFailNext]_vars

\* load_scores when reading tris.log raises: "except: return []"
load_scores_unread == <<>>

\* save_score called while tris.log cannot be read (an I/O error, or a line
\* that is not JSON): the entries are built from the empty list and written
\* over the file
SaveScoreUnread ==
    /\ TotalSaves < MaxSaves
    /\ \E user_id \in Players, username \in Names, avatar_url \in Avatars,
          score \in ScoreValues, lines_cleared \in LineValues, game_time \in TimeValues :
          /\ scores' = save_score(load_scores_unread, username, score, avatar_url, user_id,
                                  lines_cleared, game_time, clock)
          /\ saved' = [saved EXCEPT !.count[user_id] = @ + 1,
                                    !.call = [user_id |-> user_id, unread |-> TRUE],
                                    !.before = scores]
    /\ clock' = clock + 1
    /\ UNCHANGED <<top, engineVars, boardVars, regVars>>

StoreUnreadNext == SaveScore \/ SaveScoreUnread

\* the score log with reads that can fail
SpecStoreUnread == StoreSpecInit /\ [][StoreUnreadNext]_vars

----------------------------------------------------------------------------
(* The engine under compound commands: one string of move codes per step,  *)
(* auto_drop ticking between the strings.                                  *)

MaxBatch == 2

\* what get_game_time() returns when a q logs the game
QuitTime == 9

\* log_game_score(game, user_id, message.author) as the q code calls it:
\* [game, scores]
quit_logged(g, entries, now) ==
    IF g.score > 0 /\ ~g.logged
    THEN [game |-> [g EXCEPT !.logged = TRUE],
          scores |-> save_score(entries, "ann", g.score, "", 1, g.lines_cleared_total,
                                QuitTime, now)]
    ELSE [game |-> g, scores |-> entries]

\* the loop of on_message with the game_over flag set when the loop is left,
\* the codes after a q applied like the others
RECURSIVE command_loop_quit_last(_, _, _, _, _)
command_loop_quit_last(g, entries, now, script, i) ==
    IF i > Len(script)
    THEN IF \E j \in 1..Len(script) : script[j].c = "q"
         THEN quit_logged([g EXCEPT !.game_over = TRUE], entries, now)
         ELSE [game |-> g, scores |-> entries]
    ELSE IF script[i].c = "q"
         THEN command_loop_quit_last(g, entries, now, script, i + 1)
         ELSE command_loop_quit_last(apply_code(g, script[i]), entries, now, script, i + 1)

\* "for cmd in commands_str" of on_message from code i on, the q code and
\* its break included: [game, scores]
RECURSIVE command_loop(_, _, _, _, _)
command_loop(g, entries, now, script, i) ==
    IF i > Len(script) THEN [game |-> g, scores |-> entries]
    ELSE IF script[i].c = "q"
         THEN quit_logged([g EXCEPT !.game_over = TRUE], entries, now)
         ELSE command_loop(apply_code(g, script[i]), entries, now, script, i + 1)

BatchStrings ==
    {<<"a", "s">>, <<"w", "d">>, <<"q", "s">>, <<"a", "q", "d">>, <<"s", "q", "s">>,
     <<"d", "w", "s">>, <<"s", "s">>}

\* the draws of the landings of one string
BatchDraws == {<<"I", 0>>, <<"L", 1>>}

Script(cmds, t, n) == [i \in 1..Len(cmds) |-> [c |-> cmds[i], t |-> t, n |-> n]]

\* on_message with a string of move codes for a live game: the loop has no
\* await, so the whole string is one step
Command ==
    /\ steps < MaxBatch
    /\ ~game.game_over
    /\ \E cmds \in BatchStrings, d \in BatchDraws :
          LET r == command_loop(game, scores, clock, Script(cmds, d[1], d[2]), 1)
          IN  /\ game' = r.game
              /\ scores' = r.scores
              /\ clock' = IF r.scores /= scores THEN clock + 1 ELSE clock
              /\ last' = [op |-> "command", pre |-> game, draw |-> NoDraw, moved |-> FALSE,
                          script |-> Script(cmds, d[1], d[2])]
    /\ steps' = steps + 1
    /\ UNCHANGED <<saved, top, boardVars, regVars>>

BatchNext == Command \/ Tick

SpecBatch == EngineInit /\ [][BatchNext]_vars

----------------------------------------------------------------------------
(* The registry: games, messages, tasks and the handlers of one player.    *)
(* Handlers and auto_drop tasks are coroutines on one event loop: each     *)
(* runs without interruption from one await to the next, and any suspended *)
(* one may be the next to resume.  The registry reads of a session only    *)
(* score, lines_cleared_total, game_over and _logged, so a session is      *)
(* carried here as these four fields and a call of drop() or hard_drop()   *)
(* by what it does to them; the board behind them is the subject of Spec.  *)

\* events: !tris, a string of move codes, a member leaving
MaxEvents == 2

MaxLandings == 1

Player == CHOOSE p \in Players : \A q \in Players : p <= q

PlayerName == "ann"

\* what get_game_time() returns when a score is logged
GameTimes == {9}

\* how an awaited Discord call ends: normally, with NotFound or Forbidden,
\* or with another HTTPException
Replies == {"ok", "denied", "http"}

World ==
    [games |-> games, messages |-> messages, tasks |-> tasks, sess |-> sess,
     loops |-> loops, scores |-> scores, clock |-> clock, recorded |-> recorded]

Commit(w) ==
    /\ games' = w.games
    /\ messages' = w.messages
    /\ tasks' = w.tasks
    /\ sess' = w.sess
    /\ loops' = w.loops
    /\ scores' = w.scores
    /\ clock' = w.clock
    /\ recorded' = w.recorded

\* TetrisGame() as the registry sees it
new_session == [score |-> 0, lines_cleared_total |-> 0, game_over |-> FALSE, logged |-> FALSE]

\* a landing: d rows of hard drop, k rows cleared, the next piece fitting or not
landed(ss, d, k, over) ==
    [ss EXCEPT !.score = @ + 2 * d + (k * k) * 100,
               !.lines_cleared_total = @ + k,
               !.game_over = over]

DropRows == {0, 1}

ClearedRows == {0, 1}

\* what drop() can do: move the piece a row (moved), or land it
TickOutcomes ==
    [moved : {TRUE}, d : {0}, k : {0}, over : {FALSE}]
    \cup [moved : {FALSE}, d : {0}, k : ClearedRows, over : BOOLEAN]

HardDropOutcomes == [moved : {FALSE}, d : DropRows, k : ClearedRows, over : BOOLEAN]

\* drop() on a session: [game, moved]
session_drop(ss, o) ==
    IF ss.game_over THEN [game |-> ss, moved |-> FALSE]
    ELSE IF o.moved THEN [game |-> ss, moved |-> TRUE]
    ELSE [game |-> landed(ss, 0, o.k, o.over), moved |-> FALSE]

session_hard_drop(ss, o) ==
    IF ss.game_over THEN ss ELSE landed(ss, o.d, o.k, o.over)

\* the call of save_score in log_game_score; t: what get_game_time() returns
log_save(w, sid, t) ==
    [w EXCEPT !.scores = save_score(@, PlayerName, w.sess[sid].score, "", Player,
                                    w.sess[sid].lines_cleared_total, t, w.clock),
              !.clock = @ + 1,
              !.sess[sid].logged = TRUE,
              !.recorded[sid].saves = @ + 1]

log_game_score_unflagged(w, sid, t) ==
    LET w1 == [w EXCEPT !.recorded[sid].calls = @ + 1]
    IN  IF w1.sess[sid].score > 0 THEN log_save(w1, sid, t) ELSE w1

log_game_score(w, sid, t) ==
    LET w1 == [w EXCEPT !.recorded[sid].calls = @ + 1]
    IN  IF w1.sess[sid].score > 0 /\ ~w1.sess[sid].logged THEN log_save(w1, sid, t) ELSE w1

\* Task.cancel(): a task that has not started never runs its body; a
\* suspended one gets CancelledError when it resumes
cancel(l) ==
    IF l.state = "created" THEN [l EXCEPT !.state = "done"]
    ELSE IF l.state = "done" THEN l
    ELSE [l EXCEPT !.cancelled = TRUE]

\* "if user_id in tasks: tasks[user_id].cancel(); tasks.pop(user_id, None)"
cancel_task(w) ==
    IF w.tasks = 0 THEN w
    ELSE [w EXCEPT !.loops[w.tasks] = cancel(@), !.tasks = 0]

\* tasks[user_id] = bot.loop.create_task(auto_drop(user_id))
\* born: the session the same !tris created; drove: the session it last ticked
create_task(w, sid) ==
    [w EXCEPT !.loops = Append(@, [state |-> "created", cancelled |-> FALSE, game |-> 0,
                                   born |-> sid, drove |-> 0]),
              !.tasks = Len(w.loops) + 1]

\* update_display has returned to its caller
display_return(w, kind, sid) ==
    IF kind = "tris" THEN [w |-> create_task(w, sid), h |-> Idle]
    ELSE [w |-> w, h |-> Idle]

\* update_display up to its first await
display_begin(w, kind) ==
    IF w.games = 0 THEN display_return(w, kind, 0)
    ELSE [w |-> w,
          h |-> [kind |-> kind,
                 pc |-> IF w.messages THEN "ud_edit" ELSE "ud_send",
                 game |-> w.games,
                 msg |-> w.messages]]

\* "Log score" and "Cancel the auto-drop task" of update_display
display_finish(w, h, t) ==
    display_return(cancel_task(log_game_score(w, h.game, t)), h.kind, h.game)

\* update_display from "if game.game_over" on
display_over(w, h, t) ==
    IF w.sess[h.game].game_over
    THEN IF h.msg THEN [w |-> w, h |-> [h EXCEPT !.pc = "ud_clear"]]
         ELSE display_finish(w, h, t)
    ELSE display_return(w, h.kind, h.game)

\* cleanup_user_game up to its first await; user: whether the lookup found the player
cleanup_begin(w, user, t) ==
    cancel_task(IF w.games /= 0 /\ w.sess[w.games].game_over /\ user
                THEN log_game_score(w, w.games, t)
                ELSE w)

\* cleanup_user_game from messages.pop on, and what its caller does next
cleanup_end(w, kind) ==
    LET w1 == [w EXCEPT !.messages = FALSE, !.games = 0]
    IN  IF kind = "remove" THEN [w |-> w1, h |-> Idle]
        ELSE display_begin([w1 EXCEPT !.sess = Append(@, new_session),
                                      !.recorded = Append(@, [calls |-> 0, saves |-> 0]),
                                      !.games = Len(w1.sess) + 1],
                           "tris")

\* cleanup_user_game as called by kind
cleanup(w, kind, user, t) ==
    LET w1 == cleanup_begin(w, user, t)
    IN  IF w1.messages
        THEN [w |-> w1, h |-> [kind |-> kind, pc |-> "cl_clear", game |-> 0, msg |-> FALSE]]
        ELSE cleanup_end(w1, kind)

Suspended(h) == IF h = Idle THEN EmptyBag ELSE SetToBag({h})

\* a handler runs from its event to its first await
Start(r) ==
    /\ Commit(r.w)
    /\ hand' = hand (+) Suspended(r.h)

\* a handler runs from one await to the next
Step(h, r) ==
    /\ Commit(r.w)
    /\ hand' = (hand (-) SetToBag({h})) (+) Suspended(r.h)

\* an exception leaves the handler
Dies(h) ==
    /\ hand' = hand (-) SetToBag({h})
    /\ UNCHANGED <<games, messages, tasks, sess, loops, scores, clock, recorded>>

\* the handlers that can be suspended at pc
CleanupHandlers(pc) == [kind : {"tris", "remove"}, pc : {pc}, game : {0}, msg : {FALSE}]

\* the handlers that can be suspended at pc in update_display
DisplayHandlers(pc) ==
    [kind : {"tris", "command"}, pc : {pc}, game : 1..MaxEvents, msg : BOOLEAN]

Stays == UNCHANGED <<engineVars, boardVars, saved, top>>

\* create_task and cancel put the task's next step on the loop's queue of
\* ready callbacks, which the loop runs before it looks at the network or at
\* its timers: the first pass of a new task and the CancelledError of a
\* cancelled one come before any event, reply or wake-up.
Calm ==
    \A tid \in DOMAIN loops :
        /\ loops[tid].state /= "created"
        /\ loops[tid].cancelled => loops[tid].state = "done"

\* !tris
TrisStart ==
    /\ Calm
    /\ used.events < MaxEvents
    /\ used' = [used EXCEPT !.events = @ + 1]
    /\ event' = [kind |-> "tris", cmds |-> <<>>]
    /\ \E t \in GameTimes, user \in BOOLEAN :
          LET w1 == IF games /= 0 /\ sess[games].game_over
                    THEN log_game_score(World, games, t)
                    ELSE World
          IN  Start(cleanup(w1, "tris", user, t))
    /\ Stays

\* on_member_remove
RemoveStart ==
    /\ Calm
    /\ used.events < MaxEvents
    /\ used' = [used EXCEPT !.events = @ + 1]
    /\ event' = [kind |-> "remove", cmds |-> <<>>]
    /\ \E t \in GameTimes, user \in BOOLEAN :
          Start(cleanup(World, "remove", user, t))
    /\ Stays

\* "await messages[user_id].clear_reactions()" of cleanup_user_game returns
CleanupCleared(h) ==
    /\ Calm
    /\ BagIn(h, hand)
    /\ \E reply \in Replies :
          IF reply = "ok"
          THEN IF messages
               THEN Step(h, [w |-> World, h |-> [h EXCEPT !.pc = "cl_delete"]])
               ELSE Dies(h)   \* messages[user_id]: KeyError
          ELSE IF reply = "denied" THEN Step(h, cleanup_end(World, h.kind))
          ELSE Dies(h)
    /\ UNCHANGED <<used, event>>
    /\ Stays

\* "await messages[user_id].delete()" returns
CleanupDeleted(h) ==
    /\ Calm
    /\ BagIn(h, hand)
    /\ \E reply \in Replies :
          IF reply = "http" THEN Dies(h) ELSE Step(h, cleanup_end(World, h.kind))
    /\ UNCHANGED <<used, event>>
    /\ Stays

\* "await msg.edit(...)" of update_display returns
DisplayEdited(h) ==
    /\ Calm
    /\ BagIn(h, hand)
    /\ \E reply \in Replies, t \in GameTimes :
          IF reply = "ok" THEN Step(h, display_over(World, h, t))
          ELSE Step(h, [w |-> World, h |-> [h EXCEPT !.pc = "ud_resend"]])
    /\ UNCHANGED <<used, event>>
    /\ Stays

\* "new_msg = await channel.send(...)" in the try block returns
DisplaySent(h) ==
    /\ Calm
    /\ BagIn(h, hand)
    /\ \E reply \in Replies :
          IF reply = "ok"
          THEN Step(h, [w |-> [World EXCEPT !.messages = TRUE],
                        h |-> [h EXCEPT !.pc = "ud_react"]])
          ELSE Step(h, [w |-> World, h |-> [h EXCEPT !.pc = "ud_resend"]])
    /\ UNCHANGED <<used, event>>
    /\ Stays

\* "await add_game_reactions(new_msg)" in the try block returns
DisplayReacted(h) ==
    /\ Calm
    /\ BagIn(h, hand)
    /\ \E reply \in Replies, t \in GameTimes :
          IF reply = "http"
          THEN Step(h, [w |-> World, h |-> [h EXCEPT !.pc = "ud_resend"]])
          ELSE Step(h, display_over(World, h, t))
    /\ UNCHANGED <<used, event>>
    /\ Stays

\* "new_msg = await channel.send(...)" in the except block returns
DisplayResent(h) ==
    /\ Calm
    /\ BagIn(h, hand)
    /\ \E reply \in Replies :
          IF reply = "ok"
          THEN Step(h, [w |-> [World EXCEPT !.messages = TRUE],
                        h |-> [h EXCEPT !.pc = "ud_rereact"]])
          ELSE Dies(h)
    /\ UNCHANGED <<used, event>>
    /\ Stays

\* "await add_game_reactions(new_msg)" in the except block returns
DisplayRereacted(h) ==
    /\ Calm
    /\ BagIn(h, hand)
    /\ \E reply \in Replies, t \in GameTimes :
          IF reply = "http" THEN Dies(h) ELSE Step(h, display_over(World, h, t))
    /\ UNCHANGED <<used, event>>
    /\ Stays

\* "await msg.clear_reactions()" of update_display returns
DisplayCleared(h) ==
    /\ Calm
    /\ BagIn(h, hand)
    /\ \E reply \in Replies, t \in GameTimes :
          IF reply = "http" THEN Dies(h) ELSE Step(h, display_finish(World, h, t))
    /\ UNCHANGED <<used, event>>
    /\ Stays

CommandStrings ==
    {<<"a">>, <<"s">>, <<"q">>, <<"w", "d">>, <<"s", "q">>, <<"q", "s">>}

HardDrops(cmds) == Cardinality({i \in 1..Len(cmds) : cmds[i] = "s"})

\* the q code ending the game without logging it
RECURSIVE run_commands_quit_unlogged(_, _, _, _, _, _)
run_commands_quit_unlogged(w, sid, cmds, o, t, i) ==
    IF i > Len(cmds) THEN w
    ELSE IF cmds[i] = "s"
         THEN run_commands_quit_unlogged([w EXCEPT !.sess[sid] = session_hard_drop(@, o)],
                                         sid, cmds, o, t, i + 1)
    ELSE IF cmds[i] = "q"
         THEN [w EXCEPT !.sess[sid].game_over = TRUE]
    ELSE run_commands_quit_unlogged(w, sid, cmds, o, t, i + 1)

\* "for cmd in commands_str" from code i on; o: what a hard drop does
RECURSIVE run_commands(_, _, _, _, _, _)
run_commands(w, sid, cmds, o, t, i) ==
    IF i > Len(cmds) THEN w
    ELSE IF cmds[i] = "s"
         THEN run_commands([w EXCEPT !.sess[sid] = session_hard_drop(@, o)],
                           sid, cmds, o, t, i + 1)
    ELSE IF cmds[i] = "q"
         THEN log_game_score([w EXCEPT !.sess[sid].game_over = TRUE], sid, t)
    ELSE run_commands(w, sid, cmds, o, t, i + 1)   \* a, d, w: the piece only

\* on_message with a string of move codes
CommandStart ==
    /\ Calm
    /\ used.events < MaxEvents
    /\ games /= 0
    /\ ~sess[games].game_over
    /\ \E cmds \in CommandStrings, o \in HardDropOutcomes, t \in GameTimes :
          /\ used.landings + HardDrops(cmds) <= MaxLandings
          /\ HardDrops(cmds) = 0 => o = [moved |-> FALSE, d |-> 0, k |-> 0, over |-> FALSE]
          /\ used' = [used EXCEPT !.events = @ + 1, !.landings = @ + HardDrops(cmds)]
          /\ event' = [kind |-> "command", cmds |-> cmds]
          /\ LET w1 == run_commands(World, games, cmds, o, t, 1)
             IN  IF w1.sess[games].score /= sess[games].score \/ w1.sess[games].game_over
                 THEN Start(display_begin(w1, "command"))
                 ELSE Start([w |-> w1, h |-> Idle])
    /\ Stays

\* every start creates at most one task
TaskIds == 1..MaxEvents

\* the finally block of auto_drop
task_ends(w, tid) ==
    [w EXCEPT !.loops[tid].state = "done", !.tasks = 0]

\* one pass of the while loop of auto_drop, from its test to the next await
TaskRuns(tid) ==
    /\ tid \in DOMAIN loops
    /\ loops[tid].state = "created" \/ (loops[tid].state = "sleep" /\ Calm)
    /\ IF games = 0 \/ sess[games].game_over
       THEN Commit(task_ends(World, tid)) /\ UNCHANGED used
       ELSE \E o \in TickOutcomes :
               /\ o.moved \/ used.landings < MaxLandings
               /\ used' = IF o.moved THEN used ELSE [used EXCEPT !.landings = @ + 1]
               /\ LET r == session_drop(sess[games], o)
                      w1 == [World EXCEPT !.sess[games] = r.game, !.loops[tid].drove = games]
                      changed == \/ r.moved
                                 \/ r.game.score /= sess[games].score
                                 \/ r.game.game_over /= sess[games].game_over
                  IN  IF changed /\ messages
                      THEN Commit([w1 EXCEPT !.loops[tid].state = "edit",
                                             !.loops[tid].game = games])
                      ELSE IF r.game.game_over
                      THEN Commit(task_ends(w1, tid))
                      ELSE Commit([w1 EXCEPT !.loops[tid].state = "sleep"])
    /\ UNCHANGED <<hand, event>>
    /\ Stays

\* "await msg.edit(...)" of auto_drop returns
TaskEdited(tid) ==
    /\ tid \in DOMAIN loops
    /\ loops[tid].state = "edit"
    /\ Calm
    /\ \E reply \in Replies :
          IF reply = "ok" /\ ~sess[loops[tid].game].game_over
          THEN Commit([World EXCEPT !.loops[tid].state = "sleep"])
          ELSE Commit(task_ends(World, tid))
    /\ UNCHANGED <<hand, used, event>>
    /\ Stays

\* a cancelled task resumes: CancelledError, then the finally block
TaskCancelled(tid) ==
    /\ tid \in DOMAIN loops
    /\ loops[tid].state \in {"edit", "sleep"}
    /\ loops[tid].cancelled
    /\ Commit(task_ends(World, tid))
    /\ UNCHANGED <<hand, used, event>>
    /\ Stays

RegInit == RegIdle /\ StoreInit /\ EngineIdle /\ BoardIdle

RegNext ==
    \/ TrisStart
    \/ RemoveStart
    \/ CommandStart
    \/ \E h \in CleanupHandlers("cl_clear") : CleanupCleared(h)
    \/ \E h \in CleanupHandlers("cl_delete") : CleanupDeleted(h)
    \/ \E h \in DisplayHandlers("ud_edit") : DisplayEdited(h)
    \/ \E h \in DisplayHandlers("ud_send") : DisplaySent(h)
    \/ \E h \in DisplayHandlers("ud_react") : DisplayReacted(h)
    \/ \E h \in DisplayHandlers("ud_resend") : DisplayResent(h)
    \/ \E h \in DisplayHandlers("ud_rereact") : DisplayRereacted(h)
    \/ \E h \in DisplayHandlers("ud_clear") : DisplayCleared(h)
    \/ \E tid \in TaskIds :
          \/ TaskRuns(tid)
          \/ TaskEdited(tid)
          \/ TaskCancelled(tid)

SpecReg == RegInit /\ [][RegNext]_vars

----------------------------------------------------------------------------
(* What the specification says of the board, stated without the code's loops *)

\* the occupied cells of a piece anchored at (px, py), as <<column, row>>
Cells(piece, px, py) ==
    {<<px + x - 1, py + y - 1>> : <<y, x>> \in
        {c \in (1..Len(piece)) \X (1..Len(piece[1])) : piece[c[1]][c[2]] /= 0}}

Filled(board, c) ==
    /\ c[1] \in 0..(WIDTH - 1)
    /\ c[2] \in 0..(HEIGHT - 1)
    /\ board[c[2] + 1][c[1] + 1] /= 0

Collides(board, piece, px, py) ==
    \E c \in Cells(piece, px, py) :
        c[1] < 0 \/ c[1] >= WIDTH \/ c[2] >= HEIGHT \/ Filled(board, c)

FullRows(board) == {y \in 1..HEIGHT : \A x \in 1..WIDTH : board[y][x] /= 0}

\* the row a piece comes to rest on when shifted down from g.py
RestRow(g) ==
    CHOOSE r \in g.py..HEIGHT :
        /\ \A j \in (g.py + 1)..r : ~Collides(g.board, g.piece, g.px, j)
        /\ Collides(g.board, g.piece, g.px, r + 1)

SpawnColumn(piece) == (WIDTH \div 2) - (Len(piece[1]) \div 2)

PlayOps == {"move_left", "move_right", "rotate", "drop", "hard_drop"}

\* the last operation ran land_piece
Landed == last.draw.type /= "none"

\* the anchor row of the last landing and the rows it cleared
LandingRow == IF last.op = "hard_drop" THEN RestRow(last.pre) ELSE last.pre.py

LandingCleared ==
    Cardinality(FullRows(merge_piece(last.pre.board, last.pre.piece, last.pre.px, LandingRow)))

\* the points of the last operation that are not hard-drop points
LandingPoints ==
    game.score - last.pre.score
        - (IF last.op = "hard_drop" THEN 2 * (LandingRow - last.pre.py) ELSE 0)

----------------------------------------------------------------------------
(* Claims about play *)

\* every placement rotate() would try collides
AllKicksCollide(g) ==
    LET plan == rotate_plan(g)
    IN  \A i \in 1..Len(plan.kicks) :
            Collides(g.board, plan.rotated, plan.bx + plan.kicks[i][1], plan.by + plan.kicks[i][2])

\* C1: after rotate on an active session the piece at its anchor does not
\* collide with the board, and when every wall-kick placement collides the
\* piece matrix and the anchor are those of before the call.
C1_RotateSafe ==
    (last.op = "rotate" /\ ~last.pre.game_over) =>
        /\ ~Collides(game.board, game.piece, game.px, game.py)
        /\ AllKicksCollide(last.pre) =>
              /\ game.piece = last.pre.piece
              /\ game.px = last.pre.px
              /\ game.py = last.pre.py

C1_Witness ==
    /\ last.op = "rotate"
    /\ ~last.pre.game_over
    /\ AllKicksCollide(last.pre)

\* C2: under the play operations a session becomes terminal exactly when the
\* piece drawn by a landing collides at its spawn anchor (row 0, centred) on
\* the board after the clear; then the drawn piece is not installed, and
\* otherwise the session stays active with the drawn piece at the spawn anchor.
C2_TerminalIffSpawnCollides ==
    last.op \in PlayOps =>
        LET spawnCollides ==
                /\ Landed
                /\ Collides(game.board, last.draw.piece, SpawnColumn(last.draw.piece), 0)
        IN  /\ (game.game_over /\ ~last.pre.game_over) <=> spawnCollides
            /\ spawnCollides =>
                  /\ game.piece = last.pre.piece
                  /\ game.current_piece_type = last.pre.current_piece_type
                  /\ game.px = last.pre.px
                  /\ game.py = IF last.op = "hard_drop" THEN LandingRow ELSE last.pre.py
            /\ (Landed /\ ~spawnCollides) =>
                  /\ ~game.game_over
                  /\ game.piece = last.draw.piece
                  /\ game.current_piece_type = last.draw.type
                  /\ game.px = SpawnColumn(last.draw.piece)
                  /\ game.py = 0

C2_Witness ==
    /\ last.op = "drop"
    /\ Landed
    /\ game.game_over
    /\ ~last.pre.game_over

C7_HundredPerLine == Landed => LandingPoints = 100 * LandingCleared

\* C8: hard_drop on an active session lands the piece, column and matrix
\* unchanged, on its resting row r', scores 2 * (r' - r) for the shifts on
\* top of the landing's own points, and lands once.
C8_HardDrop ==
    (last.op = "hard_drop" /\ ~last.pre.game_over) =>
        LET r == last.pre.py
            rest == RestRow(last.pre)
            merged == merge_piece(last.pre.board, last.pre.piece, last.pre.px, rest)
            k == Cardinality(FullRows(merged))
        IN  /\ rest \in r..(HEIGHT - 1)
            /\ Landed
            /\ game.board = clear_lines(merged)[1]
            /\ game.lines_cleared_total = last.pre.lines_cleared_total + k
            /\ game.score = last.pre.score + 2 * (rest - r) + 100 * k * k

C8_Witness ==
    /\ last.op = "hard_drop"
    /\ ~last.pre.game_over
    /\ RestRow(last.pre) > last.pre.py + 1
    /\ LandingCleared >= 1

----------------------------------------------------------------------------
(* Claims about the board functions *)

\* the number of rows of board, among its first y, that are not full
KeptUpTo(board, y) == Cardinality((1..y) \ FullRows(board))

\* C9: clear_lines removes exactly the full rows, keeps the other rows in
\* their order below as many empty rows as it removed, returns that count,
\* and returns a board without full rows as it is (a second application
\* changes nothing).
C9_ClearFullRows ==
    out.fn = "clear_lines" =>
        LET full == FullRows(inp.board)
            k == Cardinality(full)
            nb == out.value[1]
        IN  /\ out.value[2] = k
            /\ Len(nb) = HEIGHT
            /\ \A y \in 1..HEIGHT : Len(nb[y]) = WIDTH
            /\ \A y \in 1..k : nb[y] = EmptyRow
            /\ \A y \in (1..HEIGHT) \ full : nb[k + KeptUpTo(inp.board, y)] = inp.board[y]
            /\ k = 0 => nb = inp.board
            /\ clear_lines(nb) = <<nb, 0>>

\* two rows removed, with a kept row above, between and below them
C9_Witness ==
    /\ out.fn = "clear_lines"
    /\ out.value[2] = 2
    /\ \E a, b, c \in 1..HEIGHT :
          /\ a < b /\ b < c
          /\ {a, c} \subseteq FullRows(inp.board)
          /\ b \notin FullRows(inp.board)
          /\ inp.board[b] /= EmptyRow

\* C10: check_collision is true exactly when an occupied cell maps to a
\* column < 0 or >= 7, to a row >= 12, or to a filled cell of a row in
\* 0..11; a cell mapped above row 0 in a valid column causes none.
C10_Collides ==
    out.fn = "check_collision" =>
        /\ out.value = Collides(inp.board, inp.piece, inp.px, inp.py)
        /\ (\A c \in Cells(inp.piece, inp.px, inp.py) :
                c[1] \in 0..(WIDTH - 1) /\ c[2] < 0) => out.value = FALSE

\* a bar half above a board whose rows 0 and 11 bracket it: no collision
C10_Witness ==
    /\ out.fn = "check_collision"
    /\ out.value = FALSE
    /\ inp.py < 0
    /\ inp.board /= empty_board
    /\ \E c \in Cells(inp.piece, inp.px, inp.py) : c[2] >= 0

----------------------------------------------------------------------------
(* Claims about the score log *)

EntriesOf(entries, p) == {i \in 1..Len(entries) : entries[i].user_id = p}

EntryOf(entries, p) == entries[CHOOSE i \in EntriesOf(entries, p) : TRUE]

\* C5: for each player the three bests are the largest score, line count
\* and time of their save_score calls, never decrease from one call to the
\* next, move independently (a call with more lines but no higher score
\* raises best_lines and leaves score and its timestamp as they were), and
\* games_played is the number of calls.
C5_BestsIndependent ==
    \A p \in Players :
        /\ saved.count[p] = 0 => EntriesOf(scores, p) = {}
        /\ saved.count[p] > 0 =>
              /\ EntriesOf(scores, p) /= {}
              /\ EntryOf(scores, p).games_played = saved.count[p]
              /\ EntryOf(scores, p).score = saved.score[p]
              /\ EntryOf(scores, p).best_lines = saved.lines[p]
              /\ EntryOf(scores, p).best_time = saved.time[p]
        /\ EntriesOf(saved.before, p) /= {} =>
              LET old == EntryOf(saved.before, p)
                  new == EntryOf(scores, p)
              IN  /\ new.score >= old.score
                  /\ new.best_lines >= old.best_lines
                  /\ new.best_time >= old.best_time
                  /\ (saved.call.user_id = p /\ saved.call.score <= old.score) =>
                        new.score = old.score /\ new.timestamp = old.timestamp
                  /\ (saved.call.user_id = p /\ saved.call.lines_cleared > old.best_lines) =>
                        new.best_lines = saved.call.lines_cleared
                  /\ (saved.call.user_id = p /\ saved.call.game_time > old.best_time) =>
                        new.best_time = saved.call.game_time

\* a call with a new best line count and a lower score
C5_Witness ==
    /\ saved.call.user_id \in Players
    /\ EntriesOf(saved.before, saved.call.user_id) /= {}
    /\ saved.call.score < EntryOf(saved.before, saved.call.user_id).score
    /\ saved.call.lines_cleared > EntryOf(saved.before, saved.call.user_id).best_lines
    /\ saved.count[saved.call.user_id] = 2

----------------------------------------------------------------------------
(* The registry claims, under SpecReg.                                     *)

\* a task that has been created, has not ended and has not been cancelled
LiveTasks ==
    {tid \in DOMAIN loops : loops[tid].state /= "done" /\ ~loops[tid].cancelled}

\* C3: under every interleaving of one player's start-game requests,
\* commands, ticks and removals, at most one live tick task exists for the
\* player.  The code does not keep this: two !tris handlers that overlap at
\* an await both pass cleanup_user_game before either has stored its task,
\* and the second "tasks[user_id] = create_task(...)" replaces the first
\* task without cancelling it.
C3_AtMostOneLiveTask == Cardinality(LiveTasks) <= 1

\* C4: for every session save_score is invoked at most once, and never while
\* the session's score is 0; _logged is false at creation, is set exactly
\* when the save is made, and is never reset.
C4_RecordedOnce ==
    /\ [](\A sid \in DOMAIN sess :
            /\ recorded[sid].saves = IF sess[sid].logged THEN 1 ELSE 0
            /\ sess[sid].logged => sess[sid].score > 0)
    /\ [][\A sid \in DOMAIN sess' :
            IF sid \in DOMAIN sess
            THEN /\ sess[sid].logged => sess'[sid].logged
                 /\ sess'[sid].score = 0 => recorded'[sid].saves = 0
            ELSE ~sess'[sid].logged /\ recorded'[sid].saves = 0]_vars

\* a session saved once on which log_game_score has been called again
C4_Witness ==
    \E sid \in DOMAIN sess :
        /\ recorded[sid].saves = 1
        /\ recorded[sid].calls >= 2
        /\ sess[sid].logged

----------------------------------------------------------------------------
(* Further claims about play, under Spec *)

\* C12: on a terminal session move_left, move_right, rotate, drop and
\* hard_drop change nothing (board, piece, anchor, score, lines-cleared total
\* and game_over are those of before the call) and drop reports "not moved".
C12_TerminalNoOp ==
    (last.op \in PlayOps /\ last.pre.game_over) =>
        /\ game = last.pre
        /\ ~last.moved

\* move_left on a terminal session whose piece has room on its left
C12_Witness ==
    /\ last.op = "move_left"
    /\ last.pre.game_over
    /\ ~Collides(last.pre.board, last.pre.piece, last.pre.px - 1, last.pre.py)

\* the filled cells of a board, as <<column, row>>
FilledCells(board) ==
    {c \in (0..(WIDTH - 1)) \X (0..(HEIGHT - 1)) : Filled(board, c)}

\* the cells of the piece that has just landed
LandedCells == Cells(last.pre.piece, last.pre.px, LandingRow)

BottomRow == {<<x, HEIGHT - 1>> : x \in 0..(WIDTH - 1)}

\* a horizontal bar has landed on the floor of an empty board
FirstBarLanded ==
    /\ Landed
    /\ last.pre.board = empty_board
    /\ last.pre.piece = <<<<1, 1, 1>>>>
    /\ LandingRow = HEIGHT - 1

\* a third bar has landed beside two bars lying in row 11 and filled the row
ThirdBarFillsRow ==
    /\ Landed
    /\ last.pre.current_piece_type = "I"
    /\ Cardinality(FilledCells(last.pre.board)) = 6
    /\ FilledCells(last.pre.board) \subseteq BottomRow
    /\ LandedCells \cap FilledCells(last.pre.board) = {}
    /\ BottomRow \subseteq FilledCells(last.pre.board) \cup LandedCells

\* C16 as stated: on an empty 7x12 board a horizontal bar landing at row 11
\* fills exactly 3 cells of row 11; two more bars that fill row 11 trigger a
\* 1-row clear that awards 100 points and leaves row 11 empty, every other
\* row staying where it was.
C16_BottomRowEmptied ==
    /\ FirstBarLanded =>
          FilledCells(game.board) = {<<last.pre.px + i, HEIGHT - 1>> : i \in 0..2}
    /\ ThirdBarFillsRow =>
          /\ LandingPoints = 100
          /\ FilledCells(game.board) = LandedCells \ BottomRow

\* C16, amended: on an empty 7x12 board a horizontal bar landing at row 11
\* fills exactly 3 cells of row 11; two more bars that fill row 11 trigger a
\* 1-row clear that awards 100 points and removes the seven cells of row 11,
\* every row above it shifting down by one: the two cells the third bar holds
\* above row 11 come to rest one row lower, one of them in row 11.
C16_BottomRowCleared ==
    /\ FirstBarLanded =>
          FilledCells(game.board) = {<<last.pre.px + i, HEIGHT - 1>> : i \in 0..2}
    /\ ThirdBarFillsRow =>
          /\ LandingPoints = 100
          /\ game.lines_cleared_total = last.pre.lines_cleared_total + 1
          /\ FilledCells(game.board) = {<<c[1], c[2] + 1>> : c \in LandedCells \ BottomRow}
          /\ Cardinality(FilledCells(game.board)) = 2
          /\ Cardinality(FilledCells(game.board) \cap BottomRow) = 1

\* the third bar, upright in the last free column, has landed by a hard drop
C16_Witness ==
    /\ ThirdBarFillsRow
    /\ last.op = "hard_drop"
    /\ Len(last.pre.piece) = 3
    /\ game.score = last.pre.score + 2 * (LandingRow - last.pre.py) + 100

\* C18: at every landing every occupied cell of the piece maps inside the
\* grid (none at a row < 0), so the merge writes the piece's 3 cells: the
\* landing leaves 3 cells more on the board, less 7 for every row it clears.
\* The code does not keep this: rotate() places a bar lying in row 0 upright
\* with its top cell in row -1, check_collision passes over that cell, and
\* when the bar lands there merge_piece writes 2 cells.
C18_LandsInsideGrid ==
    Landed =>
        /\ \A c \in LandedCells : c[2] >= 0
        /\ Cardinality(FilledCells(game.board)) =
              Cardinality(FilledCells(last.pre.board)) + 3 - 7 * LandingCleared

\* the offsets of C19, in the order of the claim
BarUpKicks == <<<<0, 0>>, <<-1, 0>>, <<1, 0>>, <<0, -1>>, <<0, 1>>, <<-2, 0>>, <<2, 0>>>>

BarDownKicks == <<<<0, 0>>, <<-1, 0>>, <<1, 0>>, <<0, 1>>, <<0, -1>>, <<-2, 0>>, <<2, 0>>>>

CornerKicks == <<<<0, 0>>, <<-1, 0>>, <<1, 0>>, <<0, -1>>, <<-1, -1>>, <<1, -1>>>>

\* the turned piece and the anchors C19 lists for g, in order
Candidates(g) ==
    IF g.piece = <<<<1, 1, 1>>>>
    THEN [piece |-> <<<<1>>, <<1>>, <<1>>>>,
          at |-> [i \in 1..7 |-> <<g.px + 1 + BarUpKicks[i][1], g.py - 1 + BarUpKicks[i][2]>>]]
    ELSE IF g.piece = <<<<1>>, <<1>>, <<1>>>>
    THEN [piece |-> <<<<1, 1, 1>>>>,
          at |-> [i \in 1..7 |-> <<g.px - 1 + BarDownKicks[i][1], g.py + 1 + BarDownKicks[i][2]>>]]
    ELSE [piece |-> rotate_piece(g.piece),
          at |-> [i \in 1..6 |-> <<g.px + CornerKicks[i][1], g.py + CornerKicks[i][2]>>]]

\* the candidates of g that do not collide
Fits(g) ==
    LET c == Candidates(g)
    IN  {i \in DOMAIN c.at : ~Collides(g.board, c.piece, c.at[i][1], c.at[i][2])}

FirstFit(g) == CHOOSE i \in Fits(g) : \A j \in Fits(g) : i <= j

\* C19: rotate commits the first candidate, in the order of its offset list,
\* that does not collide, piece and anchor together, and leaves them as they
\* were when every candidate collides; the score does not change.  Bar lying
\* to upright: base (px + 1, py - 1), kicks (0,0),(-1,0),(1,0),(0,-1),(0,1),
\* (-2,0),(2,0); upright to lying: base (px - 1, py + 1), kicks (0,0),(-1,0),
\* (1,0),(0,1),(0,-1),(-2,0),(2,0); corner: base (px, py), kicks (0,0),
\* (-1,0),(1,0),(0,-1),(-1,-1),(1,-1).
C19_FirstKickCommitted ==
    (last.op = "rotate" /\ ~last.pre.game_over) =>
        LET c == Candidates(last.pre)
        IN  /\ game.score = last.pre.score
            /\ game.board = last.pre.board
            /\ IF Fits(last.pre) = {}
               THEN /\ game.piece = last.pre.piece
                    /\ <<game.px, game.py>> = <<last.pre.px, last.pre.py>>
               ELSE /\ game.piece = c.piece
                    /\ <<game.px, game.py>> = c.at[FirstFit(last.pre)]

\* an upright bar laid down by its fourth kick, (0, 1), where the fifth,
\* (0, -1), would have fitted as well
C19_Witness ==
    /\ last.op = "rotate"
    /\ ~last.pre.game_over
    /\ Len(last.pre.piece) = 3
    /\ Fits(last.pre) /= {}
    /\ FirstFit(last.pre) = 4
    /\ 5 \in Fits(last.pre)
    /\ game.piece = <<<<1, 1, 1>>>>
    /\ <<game.px, game.py>> = <<last.pre.px - 1, last.pre.py + 2>>

\* the cells of the board of the last landing with the landed piece on it
MergedCells ==
    FilledCells(last.pre.board)
        \cup {c \in LandedCells : c[1] \in 0..(WIDTH - 1) /\ c[2] \in 0..(HEIGHT - 1)}

\* the rows MergedCells fills from wall to wall
MergedFullRows ==
    {r \in 0..(HEIGHT - 1) : \A x \in 0..(WIDTH - 1) : <<x, r>> \in MergedCells}

\* C23: rows are cleared exactly once per landing, right after the merge:
\* the board after a landing is the merged board without its full rows, every
\* other cell moved down by the number of full rows below it; and between
\* operations the board is 7 x 12, of empty and filled cells, with no row
\* completely filled.
C23_NoFullRow ==
    /\ Len(game.board) = HEIGHT
    /\ \A y \in 1..HEIGHT :
          /\ Len(game.board[y]) = WIDTH
          /\ \A x \in 1..WIDTH : game.board[y][x] \in {0, 1}
          /\ \E x \in 1..WIDTH : game.board[y][x] = 0
    /\ Landed =>
          LET merged == MergedCells
              full == {r \in 0..(HEIGHT - 1) : \A x \in 0..(WIDTH - 1) : <<x, r>> \in merged}
          IN  FilledCells(game.board) =
                  {<<c[1], c[2] + Cardinality({r \in full : r > c[2]})>> :
                      c \in {m \in merged : m[2] \notin full}}

\* a landing that filled two rows under cells that stay on the board
C23_Witness ==
    /\ Landed
    /\ Cardinality(MergedFullRows) = 2
    /\ FilledCells(game.board) /= {}
    /\ \E c \in MergedCells : \A r \in MergedFullRows : c[2] < r

\* C24: in every state of a live session the piece at its anchor does not
\* collide with the board; move_left and move_right change the anchor column
\* by exactly 1 when the shifted placement is free, and nothing otherwise.
C24_PieceFree ==
    /\ ~game.game_over => ~Collides(game.board, game.piece, game.px, game.py)
    /\ (last.op \in {"move_left", "move_right"} /\ ~last.pre.game_over) =>
          LET dx == IF last.op = "move_left" THEN -1 ELSE 1
          IN  IF Collides(last.pre.board, last.pre.piece, last.pre.px + dx, last.pre.py)
              THEN game = last.pre
              ELSE game = [last.pre EXCEPT !.px = @ + dx]

\* a move to the right refused by a filled cell, not by the wall
C24_Witness ==
    /\ last.op = "move_right"
    /\ ~last.pre.game_over
    /\ game = last.pre
    /\ \A c \in Cells(game.piece, game.px + 1, game.py) : c[1] < WIDTH
    /\ \E c \in Cells(game.piece, game.px + 1, game.py) : Filled(game.board, c)

----------------------------------------------------------------------------
(* Claims about the score log under failing writes, under SpecStoreFail *)

FailedWrite == saved.call.user_id /= 0 /\ "failed" \in DOMAIN saved.call

\* C13: a failure during the rewrite of tris.log loses no record: after a
\* failed write the file holds every record it held before the write began.
\* The code does not keep this: save_score reopens tris.log with mode "w",
\* which empties it, before the first line is written.
C13_FailedWriteKeepsRecords ==
    FailedWrite =>
        \A i \in 1..Len(saved.before) :
            \E j \in 1..Len(scores) : scores[j] = saved.before[i]

----------------------------------------------------------------------------
(* Claims about the leaderboard, under SpecTop *)

\* datetime.fromisoformat: the clock reading a timestamp was made from
ReadingOf(ts) == 2 * ts[1] + (IF Len(ts) > 1 THEN 1 ELSE 0)

\* a ranks no lower than b: a higher best score, or the same one achieved no later
RanksNoLower(a, b) ==
    \/ a.score > b.score
    \/ a.score = b.score /\ ReadingOf(a.timestamp) <= ReadingOf(b.timestamp)

\* C14: get_highscores(limit) returns at most limit records, the best
\* ranked of the file, by descending best score and, between equal scores,
\* ascending timestamp of that score (who achieved it earlier ranks higher);
\* the timestamp of a record's best score changes only when a strictly
\* higher score is saved for its player.
C14_TopScores ==
    /\ top /= NoCall =>
          LET r == top.value
              f == top.file
              picked == {i \in 1..Len(f) : \E j \in 1..Len(r) : r[j] = f[i]}
          IN  /\ Len(r) <= top.limit
              /\ Len(r) = IF top.limit < Len(f) THEN top.limit ELSE Len(f)
              /\ Cardinality(picked) = Len(r)
              /\ \A i, j \in 1..Len(r) : i < j => RanksNoLower(r[i], r[j])
              /\ \A i \in picked : \A j \in (1..Len(f)) \ picked : RanksNoLower(f[i], f[j])
    /\ \A p \in Players :
          (EntriesOf(saved.before, p) /= {} /\ EntriesOf(scores, p) /= {}) =>
              LET old == EntryOf(saved.before, p)
                  new == EntryOf(scores, p)
              IN  new.timestamp /= old.timestamp =>
                      /\ saved.call.user_id = p
                      /\ saved.call.score > old.score
                      /\ new.score = saved.call.score

\* two players with the same best score, the later achiever first in the
\* file, and a limit that leaves one of them out
C14_Witness ==
    /\ top /= NoCall
    /\ top.limit = 1
    /\ Len(top.file) = 2
    /\ top.file[1].score = top.file[2].score
    /\ ReadingOf(top.file[2].timestamp) < ReadingOf(top.file[1].timestamp)
    /\ top.value = <<top.file[2]>>

----------------------------------------------------------------------------
(* Further claims about the registry, under SpecReg *)

\* C11: a session that has ended with a positive score is recorded before
\* it leaves the registry: no session that a new start or a removal has
\* dropped is terminal with score > 0 and unrecorded.  The code does not keep
\* this: cleanup_user_game records the session only "if user", and
\* on_member_remove calls it for a member who has just left.
C11_RecordedBeforeDropped ==
    \A sid \in DOMAIN sess :
        (sid /= games /\ sess[sid].game_over /\ sess[sid].score > 0) => sess[sid].logged

HasQuit(cmds) == \E i \in 1..Len(cmds) : cmds[i] = "q"

\* the step that handles a command with a q in it
QuitHandled ==
    /\ used'.events = used.events + 1
    /\ event'.kind = "command"
    /\ HasQuit(event'.cmds)

\* C15: a q marks the active session terminal whatever its state, and when
\* the player has no record and the session's score s is positive, the log
\* gains exactly one record, the player's, with games_played = 1, score = s
\* and best_lines = the session's lines-cleared total.
C15_ForceQuit ==
    [][QuitHandled =>
          /\ sess'[games].game_over
          /\ games' = games
          /\ (EntriesOf(scores, Player) = {} /\ sess'[games].score > 0) =>
                /\ Len(scores') = Len(scores) + 1
                /\ Cardinality(EntriesOf(scores', Player)) = 1
                /\ EntryOf(scores', Player).games_played = 1
                /\ EntryOf(scores', Player).score = sess'[games].score
                /\ EntryOf(scores', Player).best_lines = sess'[games].lines_cleared_total
                /\ \A i \in 1..Len(scores) : scores'[i] = scores[i]]_vars

\* a lone q on a session that has scored, by a player without a record
C15_Witness ==
    /\ event = [kind |-> "command", cmds |-> <<"q">>]
    /\ games /= 0
    /\ sess[games].game_over
    /\ sess[games].score > 0
    /\ recorded[games] = [calls |-> 1, saves |-> 1]
    /\ Len(scores) = 1
    /\ scores[1].games_played = 1
    /\ scores[1].score = sess[games].score

\* the !tris that created session sid has returned: its last statement
\* stored the task it created
Started(sid) == \E tid \in DOMAIN loops : loops[tid].born = sid

\* C17: once the !tris of a session has completed, and for as long as the
\* session stays registered and is not over, a live auto_drop task exists
\* for the player (stated for the moments when no handler of the player is
\* in flight, so that a replacement or removal under way is not counted).
\* The code does not keep this: auto_drop leaves its loop when its own
\* msg.edit raises NotFound or HTTPException, and the session stays
\* registered and running with no task to drop its piece.
C17_LiveSessionHasTick ==
    (/\ games /= 0
     /\ ~sess[games].game_over
     /\ Started(games)
     /\ hand = EmptyBag) => LiveTasks /= {}

\* C20: once a session is over, replaced or removed, its task applies no
\* further drop() to any session: a task that has dropped the piece of one
\* session never drops the piece of another.  The code does not keep this:
\* auto_drop looks up games[user_id] anew at every pass, so a task left
\* alive by two overlapping !tris (see C3) goes on to drop the piece of the
\* session that replaced its own.
C20_TickOnlyOwnSession ==
    [][\A tid \in DOMAIN loops :
          loops[tid].drove /= 0 => loops'[tid].drove = loops[tid].drove]_vars

----------------------------------------------------------------------------
(* Claims about the score log under failing reads, under SpecStoreUnread *)

\* C21: after any sequence of save_score calls, those during which tris.log
\* could not be read included, the log holds at most one entry per player
\* and every player that once had an entry still has one.  The code does not
\* keep this: a call whose read fails starts from the empty list and writes
\* only the caller's new entry over the file, so every other player's entry
\* is gone.
C21_RecordsNeverDeleted ==
    \A p \in Players :
        /\ Cardinality(EntriesOf(scores, p)) <= 1
        /\ saved.count[p] > 0 => EntriesOf(scores, p) /= {}

----------------------------------------------------------------------------
(* Claims about compound commands, under SpecBatch *)

\* what one move code does to a game
OneCode(g, k) ==
    CASE k.c = "a" -> move_left(g)
      [] k.c = "d" -> move_right(g)
      [] k.c = "w" -> rotate(g)
      [] k.c = "s" -> hard_drop(g, k.t, k.n)

\* the first n codes of a script applied one after the other
RECURSIVE InOrder(_, _, _)
InOrder(g, script, n) ==
    IF n = 0 THEN g ELSE OneCode(InOrder(g, script, n - 1), script[n])

\* the position of the first q of a script, its length + 1 when it has none
QuitAt(script) ==
    CHOOSE k \in 1..(Len(script) + 1) :
        /\ k <= Len(script) => script[k].c = "q"
        /\ \A j \in 1..(k - 1) : j <= Len(script) => script[j].c /= "q"

\* C22: a string of move codes is applied to the session in order as one
\* step, and a q in it makes the session terminal and ends the string: the
\* step leaves board, piece, anchor, score and lines as the codes before the
\* first q leave them, whatever codes follow it.
C22_BatchInOrder ==
    last.op = "command" =>
        LET k == QuitAt(last.script)
            g == InOrder(last.pre, last.script, k - 1)
        IN  /\ game.board = g.board
            /\ game.piece = g.piece
            /\ game.current_piece_type = g.current_piece_type
            /\ <<game.px, game.py>> = <<g.px, g.py>>
            /\ game.score = g.score
            /\ game.lines_cleared_total = g.lines_cleared_total
            /\ game.game_over = (k <= Len(last.script) \/ g.game_over)

\* a hard drop, a q, and a hard drop that would have landed another piece
C22_Witness ==
    /\ last.op = "command"
    /\ QuitAt(last.script) = 2
    /\ Len(last.script) = 3
    /\ last.script[1].c = "s"
    /\ last.script[3].c = "s"
    /\ ~InOrder(last.pre, last.script, 1).game_over
    /\ game.game_over
    /\ game.score > last.pre.score

====
